---- MODULE Spec2Model ----
(***************************************************************************)
(* The orchestration logic of src/src/App.tsx: the App component's state   *)
(* (input, isProcessing, messages, steps), the handleSend handler, and the *)
(* async function simulateAgentProcess with its four delay() suspensions.  *)
(*                                                                         *)
(* React state is modelled by its update queue's value: every updater in   *)
(* the source is either a constant or a functional updater (prev => ...),  *)
(* so applying the updates in call order gives the value React commits.    *)
(* What a handler READS is different: handleSend reads `input` and         *)
(* `isProcessing` from the closure of the render that created it, so the   *)
(* model keeps that snapshot (closure) and refreshes it in Render.         *)
(*                                                                         *)
(* Time is the millisecond clock Date.now() reads.  setTimeout timers fire *)
(* at their due time, in the order the HTML timer rules give.              *)
(***************************************************************************)
EXTENDS Integers, Sequences, FiniteSets

VARIABLES
    input,          \* useState('')              : sequence of characters
    isProcessing,   \* useState(false)
    messages,       \* useState<Message[]>
    steps,          \* useState<Step[]>
    closure,        \* input / isProcessing as captured by the attached handleSend
    runs,           \* one record per call of simulateAgentProcess, in call order
    clock,          \* the value Date.now() returns
    timerSeq,       \* next setTimeout handle
    last            \* history: the operation that produced this state

vars == <<input, isProcessing, messages, steps, closure, runs, clock, timerSeq, last>>

---------------------------------------------------------------------------
\* Bounds of the model
MaxRuns == 3          \* accepted submits explored
MaxDeepRuns == 4      \* accepted submits explored by the deeper specification
MaxLiveRuns == 2      \* accepted submits explored under the fair specification

\* Program constants
Delay1 == 1000
Delay2 == 1500
Delay3 == 2000
Delay4 == 2000
NumSteps == 4

\* The clock step used while waiting: the common divisor of the four delays
Quantum == Delay2 - Delay1

InitialClocks == {5000}
Inputs == {<<>>, <<" ">>, <<"a", "b">>}
Whitespace == {" ", "\t", "\n"}

---------------------------------------------------------------------------
\* Pure helpers

Digits == <<"0", "1", "2", "3", "4", "5", "6", "7", "8", "9">>

RECURSIVE toString(_)
\* Number.prototype.toString() of a non-negative integer
toString(n) ==
    IF n < 10 THEN Digits[n + 1]
    ELSE toString(n \div 10) \o Digits[(n % 10) + 1]

RECURSIVE TrimStart(_)
TrimStart(s) ==
    IF s /= <<>> /\ Head(s) \in Whitespace THEN TrimStart(Tail(s)) ELSE s

RECURSIVE TrimEnd(_)
TrimEnd(s) ==
    IF s /= <<>> /\ s[Len(s)] \in Whitespace
    THEN TrimEnd(SubSeq(s, 1, Len(s) - 1)) ELSE s

\* String.prototype.trim()
Trim(s) == TrimEnd(TrimStart(s))

RECURSIVE Text(_)
\* the string a character sequence spells
Text(s) == IF s = <<>> THEN "" ELSE Head(s) \o Text(Tail(s))

StepIds == <<"1", "2", "3", "4">>
Labels == <<"Analyze Request", "Generate Architecture", "Write Code", "Deploy to Edge">>

InitialSteps ==
    [i \in 1..NumSteps |-> [id |-> StepIds[i], label |-> Labels[i], status |-> "pending"]]

InitialMessage(now) ==
    [id |-> "1", role |-> "system",
     content |-> "AutoDeploy Agent v1.0 initialized. Ready for instructions.",
     timestamp |-> now, type |-> "status"]

SuccessText == "Deployment successful! Application is live."

\* setSteps(prev => prev.map(s => ({ ...s, status: 'pending' })))
ResetSteps(prev) ==
    [i \in DOMAIN prev |-> [prev[i] EXCEPT !.status = "pending"]]

\* setSteps(prev => prev.map(s => s.id === id ? { ...s, status } : s))
UpdateStep(prev, id, status) ==
    [i \in DOMAIN prev |->
        IF prev[i].id = id THEN [prev[i] EXCEPT !.status = status] ELSE prev[i]]

\* the Message addMessage builds at time `now`
NewMessage(role, content, type, now) ==
    [id |-> toString(now), role |-> role, content |-> content,
     timestamp |-> now, type |-> type]

\* mutant: the new Entry is put in front of the timeline
AddMessageFront(prev, m) == <<m>> \o prev

\* setMessages(prev => [...prev, m])
AddMessage(prev, m) == Append(prev, m)

\* the arguments of the addMessage call made after the k-th delay
Narration(k, prompt) ==
    CASE k = 1 -> [role |-> "agent", type |-> "text",
                   content |-> "Analyzing request: \"" \o Text(prompt) \o "\"..."]
      [] k = 2 -> [role |-> "agent", type |-> "code",
                   content |-> "Generating system architecture..."]
      [] k = 3 -> [role |-> "agent", type |-> "text",
                   content |-> "Writing React components and API routes..."]
      [] k = 4 -> [role |-> "system", type |-> "status",
                   content |-> "Deploying to production environment..."]

\* the argument of the k-th delay() call
DelayMs(k) ==
    CASE k = 1 -> Delay1 [] k = 2 -> Delay2 [] k = 3 -> Delay3 [] k = 4 -> Delay4

---------------------------------------------------------------------------
\* The state updates a handler queues, in program order, and their effect

NoMessage == [id |-> "", role |-> "", content |-> "", timestamp |-> 0, type |-> ""]

\* setMessages(prev => [...prev, m]), made on behalf of step k (0: the user Entry,
\* NumSteps + 1: the success Entry)
OpAdd(k, m) == [op |-> "add", step |-> k, msg |-> m, status |-> ""]
\* updateStep(StepIds[k], st)
OpUpdate(k, st) == [op |-> "update", step |-> k, msg |-> NoMessage, status |-> st]
\* the reset of line 88
OpReset == [op |-> "reset", step |-> 0, msg |-> NoMessage, status |-> "pending"]

\* mutant: the user Entry is appended twice
SendOpsUserTwice(text, now) ==
    << OpAdd(0, [id |-> toString(now), role |-> "user", content |-> Text(text),
                 timestamp |-> now, type |-> "text"]),
       OpAdd(0, [id |-> toString(now), role |-> "user", content |-> Text(text),
                 timestamp |-> now, type |-> "text"]),
       OpReset,
       OpUpdate(1, "active") >>

\* mutant: the reset of the steps is forgotten
SendOpsNoReset(text, now) ==
    << OpAdd(0, [id |-> toString(now), role |-> "user", content |-> Text(text),
                 timestamp |-> now, type |-> "text"]),
       OpUpdate(1, "active") >>

\* handleSend's updates of messages and steps once its guard has passed:
\* setMessages (78), then simulateAgentProcess up to its first await (88, 91)
SendOps(text, now) ==
    << OpAdd(0, [id |-> toString(now), role |-> "user", content |-> Text(text),
                 timestamp |-> now, type |-> "text"]),
       OpReset,
       OpUpdate(1, "active") >>

\* mutant: the step is completed before its narration is appended
ResumeOpsCompletedFirst(k, prompt, now) ==
    LET n == Narration(k, prompt)
    IN  << OpUpdate(k, "completed"),
           OpAdd(k, NewMessage(n.role, n.content, n.type, now)),
           OpUpdate(k + 1, "active") >>

\* simulateAgentProcess between its k-th and (k+1)-th await, k < NumSteps
ResumeOps(k, prompt, now) ==
    LET n == Narration(k, prompt)
    IN  << OpAdd(k, NewMessage(n.role, n.content, n.type, now)),
           OpUpdate(k, "completed"),
           OpUpdate(k + 1, "active") >>

\* mutant: the success Entry is forgotten
FinishOpsNoSuccess(prompt, t1, t2) ==
    LET n == Narration(NumSteps, prompt)
    IN  << OpAdd(NumSteps, NewMessage(n.role, n.content, n.type, t1)),
           OpUpdate(NumSteps, "completed") >>

\* simulateAgentProcess after its last await; t1, t2 are its two Date.now() reads
FinishOps(prompt, t1, t2) ==
    LET n == Narration(NumSteps, prompt)
    IN  << OpAdd(NumSteps, NewMessage(n.role, n.content, n.type, t1)),
           OpUpdate(NumSteps, "completed"),
           OpAdd(NumSteps + 1, NewMessage("agent", SuccessText, "text", t2)) >>

\* History: one setSteps effect on one step; before is every step's status
\* when the update is applied
Tr(prev, i, to, byReset) ==
    [step |-> i, from |-> prev[i].status, to |-> to, reset |-> byReset,
     before |-> [j \in DOMAIN prev |-> prev[j].status]]

ResetTrans(prev) == [i \in 1..NumSteps |-> Tr(prev, i, "pending", TRUE)]

\* History: one operation of a Run; pos is the Entry's place in messages
Ev(o, pos) == [kind |-> o.op, step |-> o.step, status |-> o.status, pos |-> pos]

\* one queued update applied to st = [messages, steps, trans, log]
Apply(st, o) ==
    CASE o.op = "add" ->
            [st EXCEPT !.messages = AddMessage(st.messages, o.msg),
                       !.log = Append(@, Ev(o, Len(st.messages) + 1))]
      [] o.op = "update" ->
            [st EXCEPT !.steps = UpdateStep(st.steps, StepIds[o.step], o.status),
                       !.trans = Append(@, Tr(st.steps, o.step, o.status, FALSE)),
                       !.log = Append(@, Ev(o, 0))]
      [] o.op = "reset" ->
            [st EXCEPT !.steps = ResetSteps(st.steps),
                       !.trans = @ \o ResetTrans(st.steps),
                       !.log = Append(@, Ev(o, 0))]

RECURSIVE Exec(_, _)
\* the queued updates applied in call order
Exec(st, ops) ==
    IF ops = <<>> THEN st ELSE Exec(Apply(st, Head(ops)), Tail(ops))

Event(op, accepted, run, trans) ==
    [op |-> op, accepted |-> accepted, run |-> run, trans |-> trans]

---------------------------------------------------------------------------
\* State predicates

Snapshot == [input |-> input, isProcessing |-> isProcessing]

\* state was set since the last render: React has a re-render scheduled
RenderPending == closure /= Snapshot

\* the previous operation was a call from the page (typing, a submit): the
\* only place from which handleSend can be called again before React re-renders
InCallerTask == last.op \in {"handleSend", "setInput"}

Pending(r) == runs[r].stage \in 1..NumSteps

TimerPending == \E r \in DOMAIN runs : Pending(r)

\* a Run is between its accepted handleSend and its setIsProcessing(false)
RunInProgress == TimerPending

Due(r) == Pending(r) /\ runs[r].due <= clock

\* HTML timers: a timer waits for every timer set earlier with a delay not longer than its own
MayFire(r) ==
    /\ Due(r)
    /\ \A u \in DOMAIN runs :
          ~(Pending(u) /\ runs[u].handle < runs[r].handle /\ runs[u].ms <= runs[r].ms)

MinDue ==
    CHOOSE d \in {runs[r].due : r \in {x \in DOMAIN runs : Pending(x)}} :
        \A r \in DOMAIN runs : Pending(r) => d <= runs[r].due

LastEntryTime == messages[Len(messages)].timestamp

Here(log) == [messages |-> messages, steps |-> steps, trans |-> <<>>, log |-> log]

---------------------------------------------------------------------------
Init ==
    /\ input = <<>>
    /\ isProcessing = FALSE
    /\ clock \in InitialClocks
    /\ messages = <<InitialMessage(clock)>>
    /\ steps = InitialSteps
    /\ closure = [input |-> <<>>, isProcessing |-> FALSE]
    /\ runs = <<>>
    /\ timerSeq = 1
    /\ last = Event("init", FALSE, 0, <<>>)

\* onChange of the text input: setInput(e.target.value); the input is disabled
\* while the rendered isProcessing is true
ChangeInput(v) ==
    /\ ~RenderPending \/ InCallerTask
    /\ ~closure.isProcessing
    /\ v /= input
    /\ input' = v
    /\ last' = Event("setInput", FALSE, 0, <<>>)
    /\ UNCHANGED <<isProcessing, messages, steps, closure, runs, clock, timerSeq>>

\* React re-renders App: handleSend is re-created over the current state
Render ==
    /\ RenderPending
    /\ closure' = Snapshot
    /\ last' = Event("render", FALSE, 0, <<>>)
    /\ UNCHANGED <<input, isProcessing, messages, steps, runs, clock, timerSeq>>

\* mutant: the input is compared without trim()
RejectsUntrimmed(c) == c.input = <<>> \/ c.isProcessing

\* the guard of handleSend, on the values its closure captured
Rejects(c) == Trim(c.input) = <<>> \/ c.isProcessing

\* handleSend(), up to the first await delay() inside simulateAgentProcess
HandleSend ==
    IF Rejects(closure)
    THEN /\ last' = Event("handleSend", FALSE, 0, <<>>)
         /\ UNCHANGED <<input, isProcessing, messages, steps, closure, runs, clock, timerSeq>>
    ELSE LET st == Exec(Here(<<>>), SendOps(closure.input, clock))
            IN  /\ messages' = st.messages
                /\ input' = <<>>
                /\ isProcessing' = TRUE
                /\ steps' = st.steps
                /\ runs' = Append(runs,
                      [prompt |-> closure.input, stage |-> 1,
                       due |-> clock + DelayMs(1), ms |-> DelayMs(1),
                       handle |-> timerSeq, log |-> st.log])
                /\ timerSeq' = timerSeq + 1
                /\ last' = Event("handleSend", TRUE, Len(runs) + 1, st.trans)
                /\ UNCHANGED <<closure, clock>>

\* handleSend called by the page: on a committed render, or again in the same task
\* (at most n calls are accepted)
SubmitUpTo(n) ==
    /\ ~RenderPending \/ InCallerTask
    /\ Rejects(closure) \/ Len(runs) < n
    /\ HandleSend

Submit == SubmitUpTo(MaxRuns)

\* handleSend called only through the rendered DOM, one event per task: React has
\* committed the re-render before the next event is dispatched
SubmitCommitted ==
    /\ ~RenderPending
    /\ Rejects(closure) \/ Len(runs) < MaxRuns
    /\ HandleSend

\* the continuation of simulateAgentProcess after its k-th delay, k < NumSteps
Resume(r, k) ==
    /\ ~RenderPending
    /\ runs[r].stage = k
    /\ MayFire(r)
    /\ LET st == Exec(Here(runs[r].log), ResumeOps(k, runs[r].prompt, clock))
       IN  /\ messages' = st.messages
           /\ steps' = st.steps
           /\ runs' = [runs EXCEPT ![r] =
                 [@ EXCEPT !.stage = k + 1,
                           !.due = clock + DelayMs(k + 1),
                           !.ms = DelayMs(k + 1),
                           !.handle = timerSeq,
                           !.log = st.log]]
           /\ timerSeq' = timerSeq + 1
           /\ last' = Event("resume", FALSE, r, st.trans)
           /\ UNCHANGED <<input, isProcessing, closure, clock>>

AfterDelay1(r) == Resume(r, 1)
AfterDelay2(r) == Resume(r, 2)
AfterDelay3(r) == Resume(r, 3)

\* mutant: setIsProcessing(false) is forgotten
AfterDelay4KeepsBusy(r) ==
    /\ ~RenderPending
    /\ runs[r].stage = NumSteps
    /\ MayFire(r)
    /\ \E t2 \in {clock, clock + 1} :
        LET st == Exec(Here(runs[r].log), FinishOps(runs[r].prompt, clock, t2))
        IN  /\ messages' = st.messages
            /\ steps' = st.steps
            /\ clock' = t2
            /\ runs' = [runs EXCEPT ![r] =
                  [@ EXCEPT !.stage = NumSteps + 1, !.log = st.log]]
            /\ last' = Event("finish", FALSE, r, st.trans)
            /\ UNCHANGED <<input, isProcessing, closure, timerSeq>>

\* the continuation after the fourth delay: two addMessage calls in one task,
\* the second Date.now() reads the same millisecond or the next
AfterDelay4(r) ==
    /\ ~RenderPending
    /\ runs[r].stage = NumSteps
    /\ MayFire(r)
    /\ \E t2 \in {clock, clock + 1} :
        LET st == Exec(Here(runs[r].log), FinishOps(runs[r].prompt, clock, t2))
        IN  /\ messages' = st.messages
            /\ steps' = st.steps
            /\ isProcessing' = FALSE
            /\ clock' = t2
            /\ runs' = [runs EXCEPT ![r] =
                  [@ EXCEPT !.stage = NumSteps + 1, !.log = st.log]]
            /\ last' = Event("finish", FALSE, r, st.trans)
            /\ UNCHANGED <<input, closure, timerSeq>>

\* time passes: to the next timer's due time, at most one quantum at a time.
\* While no timer is pending nothing depends on how long the page idles except
\* the value of later timestamps, so idle time is followed for one quantum past
\* the last Entry.
Advance ==
    /\ ~RenderPending
    /\ ~\E r \in DOMAIN runs : Due(r)
    /\ IF TimerPending
       THEN clock' = (IF MinDue < clock + Quantum THEN MinDue ELSE clock + Quantum)
       ELSE /\ clock < LastEntryTime + Quantum
            /\ clock' = clock + Quantum
    /\ last' = Event("advance", FALSE, 0, <<>>)
    /\ UNCHANGED <<input, isProcessing, messages, steps, closure, runs, timerSeq>>

Next ==
    \/ \E v \in Inputs : ChangeInput(v)
    \/ Render
    \/ Submit
    \/ \E r \in DOMAIN runs : AfterDelay1(r)
    \/ \E r \in DOMAIN runs : AfterDelay2(r)
    \/ \E r \in DOMAIN runs : AfterDelay3(r)
    \/ \E r \in DOMAIN runs : AfterDelay4(r)
    \/ Advance

Spec == Init /\ [][Next]_vars

\* the same program, one more submit deep
SubmitDeep == SubmitUpTo(MaxDeepRuns)

NextDeep ==
    \/ \E v \in Inputs : ChangeInput(v)
    \/ Render
    \/ SubmitDeep
    \/ \E r \in DOMAIN runs : AfterDelay1(r)
    \/ \E r \in DOMAIN runs : AfterDelay2(r)
    \/ \E r \in DOMAIN runs : AfterDelay3(r)
    \/ \E r \in DOMAIN runs : AfterDelay4(r)
    \/ Advance

DeepSpec == Init /\ [][NextDeep]_vars

\* the same program driven only by DOM events
NextDom ==
    \/ \E v \in Inputs : ChangeInput(v)
    \/ Render
    \/ SubmitCommitted
    \/ \E r \in DOMAIN runs : AfterDelay1(r)
    \/ \E r \in DOMAIN runs : AfterDelay2(r)
    \/ \E r \in DOMAIN runs : AfterDelay3(r)
    \/ \E r \in DOMAIN runs : AfterDelay4(r)
    \/ Advance

DomSpec == Init /\ [][NextDom]_vars

---------------------------------------------------------------------------
\* Properties

Status(i) == steps[i].status
Finished(r) == r \in DOMAIN runs /\ runs[r].stage = NumSteps + 1
Rank(st) == CASE st = "pending" -> 0 [] st = "active" -> 1 [] OTHER -> 2
Backward(t) == Rank(t.to) < Rank(t.from)

\* C1: a handleSend call made while a Run is in progress appends no Entry and
\* changes no step: it leaves messages and steps as they were and starts no Run.
C1_BusySubmitRejected ==
    [][(last'.op = "handleSend" /\ RunInProgress)
         => (messages' = messages /\ steps' = steps /\ runs' = runs)]_vars

\* C2: the Entries of the timeline have pairwise distinct identifiers.
C2_DistinctIds ==
    \A i, j \in DOMAIN messages : i /= j => messages[i].id /= messages[j].id

\* C3: when a Run finishes every step is completed, and a step is never
\* completed while the step before it is not.
C3_AllCompletedInOrder ==
    /\ last.op = "finish" => \A i \in 1..NumSteps : Status(i) = "completed"
    /\ \A k \in 1..(NumSteps - 1) : Status(k + 1) = "completed" => Status(k) = "completed"

\* C4: a Run sets a step to completed or failed only after it has set it to
\* active, and no step is set to completed or failed from pending.
C4_ActiveBeforeTerminal ==
    /\ \A r \in DOMAIN runs : \A i \in DOMAIN runs[r].log :
          (runs[r].log[i].kind = "update" /\ runs[r].log[i].status \in {"completed", "failed"})
             => \E j \in 1..(i - 1) :
                   /\ runs[r].log[j].kind = "update"
                   /\ runs[r].log[j].step = runs[r].log[i].step
                   /\ runs[r].log[j].status = "active"
    /\ \A i \in DOMAIN last.trans :
          last.trans[i].to \in {"completed", "failed"} => last.trans[i].from /= "pending"

\* C5: at most one step is active, and a step is made active only when every
\* step before it is completed.
C5_StrictlySequential ==
    /\ Cardinality({i \in 1..NumSteps : Status(i) = "active"}) <= 1
    /\ \A i \in DOMAIN last.trans :
          last.trans[i].to = "active"
             => \A j \in 1..(last.trans[i].step - 1) : last.trans[i].before[j] = "completed"

\* C10: while a Run is in progress no step's status moves backward, and outside
\* a Run the only backward move is the reset of an accepted submit.
C10_NoBackwardTransition ==
    [][\A i \in DOMAIN last'.trans :
          Backward(last'.trans[i]) => (last'.trans[i].reset /\ ~RunInProgress)]_vars

\* the updates of one Run, in program order: <<kind, step, status>>
RunShape ==
    << <<"add", 0, "">>, <<"reset", 0, "pending">>, <<"update", 1, "active">>,
       <<"add", 1, "">>, <<"update", 1, "completed">>, <<"update", 2, "active">>,
       <<"add", 2, "">>, <<"update", 2, "completed">>, <<"update", 3, "active">>,
       <<"add", 3, "">>, <<"update", 3, "completed">>, <<"update", 4, "active">>,
       <<"add", 4, "">>, <<"update", 4, "completed">>, <<"add", 5, "">> >>

Shape(e) == <<e.kind, e.step, e.status>>
Adds(log) == SelectSeq(log, LAMBDA e : e.kind = "add")
Completions(log) == SelectSeq(log, LAMBDA e : e.kind = "update" /\ e.status = "completed")
\* the place in log of the update that set step k to st (0: none)
At(log, k, st) ==
    IF \E i \in DOMAIN log : Shape(log[i]) = <<"update", k, st>>
    THEN CHOOSE i \in DOMAIN log : Shape(log[i]) = <<"update", k, st>>
    ELSE 0

\* C6: every Run performs its updates in the fixed order user Entry, reset, then
\* per step active / narration Entry / completed, then the success Entry; and
\* its Entries stand in the timeline in that order, the user Entry carrying the
\* request first and the success Entry last.
C6_RunOrderIsTimelineOrder ==
    \A r \in DOMAIN runs :
        LET log == runs[r].log
            adds == Adds(log)
        IN  /\ Len(log) <= Len(RunShape)
            /\ \A i \in DOMAIN log : Shape(log[i]) = RunShape[i]
            /\ \A i \in DOMAIN adds : adds[i].pos \in DOMAIN messages
            /\ \A i, j \in DOMAIN adds : i < j => adds[i].pos < adds[j].pos
            /\ messages[adds[1].pos].role = "user"
            /\ messages[adds[1].pos].content = Text(runs[r].prompt)
            /\ \A i \in DOMAIN adds :
                  (messages[adds[i].pos].content = SuccessText) <=> (adds[i].step = NumSteps + 1)
            /\ \A i \in DOMAIN adds : i > 1 => messages[adds[i].pos].role /= "user"

\* a Run has finished whose Entries are interleaved with another Run's
C6_Witness ==
    \E r, q \in DOMAIN runs :
        /\ r /= q /\ Finished(r)
        /\ Adds(runs[r].log)[1].pos < Adds(runs[q].log)[1].pos
        /\ Adds(runs[q].log)[1].pos < Adds(runs[r].log)[Len(Adds(runs[r].log))].pos

\* what C7 asks of a finished Run, with the origins allowed for a step's narration
RunProduces(r, origins) ==
    LET log == runs[r].log
        adds == Adds(log)
        done == Completions(log)
    IN  /\ [i \in DOMAIN done |-> steps[done[i].step].label] =
              <<"Analyze Request", "Generate Architecture", "Write Code", "Deploy to Edge">>
        /\ \A k \in 1..NumSteps :
              \E i \in DOMAIN log :
                 /\ log[i].kind = "add" /\ log[i].step = k
                 /\ messages[log[i].pos].role \in origins
                 /\ At(log, k, "active") /= 0 /\ At(log, k, "active") < i
                 /\ At(log, k, "completed") /= 0 /\ i < At(log, k, "completed")
        /\ log[Len(log)].kind = "add"
        /\ messages[log[Len(log)].pos].content = SuccessText
        /\ At(log, NumSteps, "completed") < Len(log)
        /\ Len(adds) >= 5
        /\ messages[adds[1].pos].role = "user"

\* C7 as claimed: every finished Run completed the four steps in order, appended
\* an agent Entry for each step between making it active and completing it, then
\* the success Entry, at least 5 Entries in all.
C7_AgentEntryPerStep ==
    \A r \in DOMAIN runs : Finished(r) => RunProduces(r, {"agent"})

\* C7 amended: the same, the step's Entry having origin agent or system.
C7_NarrationPerStep ==
    \A r \in DOMAIN runs : Finished(r) => RunProduces(r, {"agent", "system"})

\* a finished Run whose Entry for the last step has origin system
C7_Witness ==
    \E r \in DOMAIN runs :
        /\ Finished(r)
        /\ \E i \in DOMAIN runs[r].log :
              /\ runs[r].log[i].kind = "add" /\ runs[r].log[i].step = NumSteps
              /\ messages[runs[r].log[i].pos].role = "system"

\* C8: every step leaves the Entries already in the timeline in place and
\* unchanged: the old timeline is a prefix of the new one.
C8_AppendOnly ==
    [][/\ Len(messages') >= Len(messages)
       /\ SubSeq(messages', 1, Len(messages)) = messages]_vars

\* two Runs have appended their Entries
C8_Witness == Len(messages) >= 13 /\ \E r \in DOMAIN runs : Finished(r)

\* Fairness: React performs a scheduled re-render, time passes, and a timer that
\* is due fires (the event loop does not starve timer tasks)
TimerFires ==
    \E r \in DOMAIN runs :
        AfterDelay1(r) \/ AfterDelay2(r) \/ AfterDelay3(r) \/ AfterDelay4(r)

SubmitLive == SubmitUpTo(MaxLiveRuns)

NextLive ==
    \/ \E v \in Inputs : ChangeInput(v)
    \/ Render
    \/ SubmitLive
    \/ \E r \in DOMAIN runs : AfterDelay1(r)
    \/ \E r \in DOMAIN runs : AfterDelay2(r)
    \/ \E r \in DOMAIN runs : AfterDelay3(r)
    \/ \E r \in DOMAIN runs : AfterDelay4(r)
    \/ Advance

LiveSpec ==
    /\ Init /\ [][NextLive]_vars
    /\ WF_vars(Render)
    /\ SF_vars(Advance)
    /\ SF_vars(TimerFires)

\* C9: isProcessing is true only while a Run is in progress; every accepted Run
\* finishes, after which isProcessing is false and the re-render that follows
\* makes handleSend see it; and a handleSend with a non-blank input on a
\* rendered idle state is accepted and starts a Run.
C9_RunsFinishAndIdleAccepts ==
    /\ [](isProcessing => RunInProgress)
    /\ RunInProgress ~> (~RunInProgress /\ ~isProcessing /\ ~closure.isProcessing)
    /\ [][(last'.op = "handleSend" /\ ~isProcessing /\ ~RenderPending /\ Trim(input) /= <<>>)
            => (last'.accepted /\ isProcessing' /\ Len(runs') = Len(runs) + 1
                /\ runs'[Len(runs')].stage = 1)]_vars

\* a Run was accepted after an earlier Run had finished
C9_Witness ==
    \E r, q \in DOMAIN runs :
        /\ Finished(r)
        /\ Adds(runs[r].log)[Len(Adds(runs[r].log))].pos < Adds(runs[q].log)[1].pos

\* C12: a Run in progress can be cancelled: some step of the program ends it
\* without advancing, appends one status Entry and releases the busy flag.
CancelStep ==
    /\ Next
    /\ ~isProcessing'
    /\ \E r \in DOMAIN runs :
          /\ Pending(r)
          /\ runs'[r].stage = NumSteps + 1
          /\ \A k \in (runs[r].stage + 1)..NumSteps : steps'[k].status = "pending"
    /\ Len(messages') = Len(messages) + 1
    /\ messages'[Len(messages')].type = "status"

C12_RunCanBeCancelled == RunInProgress => ENABLED CancelStep

\* C13: an accepted handleSend makes step 1 active when every step is pending,
\* and leaves step 1 active and the other steps pending.
C13_ResetBeforeFirstStep ==
    (last.op = "handleSend" /\ last.accepted) =>
        /\ last.trans /= <<>>
        /\ LET t == last.trans[Len(last.trans)]
           IN  /\ t.step = 1 /\ t.to = "active" /\ ~t.reset
               /\ \A j \in 1..NumSteps : t.before[j] = "pending"
        /\ Status(1) = "active"
        /\ \A j \in 2..NumSteps : Status(j) = "pending"

\* a Run was accepted when the steps of an earlier, finished Run were completed
C13_Witness ==
    /\ last.op = "handleSend" /\ last.accepted
    /\ \E r \in DOMAIN runs : Finished(r)
    /\ \A j \in 2..NumSteps :
          \E i \in DOMAIN last.trans :
             /\ last.trans[i].reset /\ last.trans[i].step = j
             /\ last.trans[i].from = "completed"

\* C14: the steps are a prefix of completed steps, then at most one active
\* step, then pending steps.
C14_StepShape ==
    \A i, j \in 1..NumSteps :
        i < j => \/ Status(i) = "completed"
                 \/ Status(j) = "pending"

\* C15: while isProcessing is false no step is active, the steps are all
\* pending (before the first Run) or all completed, and after the first
\* accepted Run the last Entry is the success Entry.
C15_BusyFlagBracketsRun ==
    ~isProcessing =>
        /\ \A i \in 1..NumSteps : Status(i) /= "active"
        /\ \/ runs = <<>> /\ \A i \in 1..NumSteps : Status(i) = "pending"
           \/ \A i \in 1..NumSteps : Status(i) = "completed"
        /\ runs /= <<>> => messages[Len(messages)].content = SuccessText

\* C16: a handleSend call that reads an empty or whitespace-only input leaves
\* messages, steps, isProcessing and input unchanged and starts no Run.
C16_BlankInputIsNoOp ==
    [][(last'.op = "handleSend" /\ Trim(closure.input) = <<>>)
         => UNCHANGED <<messages, steps, isProcessing, input, runs, timerSeq>>]_vars

\* handleSend was called on a whitespace-only input, the busy flag it reads
\* being false, while a Run is in progress
C16_Witness ==
    /\ last.op = "handleSend" /\ ~last.accepted
    /\ closure.input = <<" ">> /\ ~closure.isProcessing
    /\ RunInProgress

\* C17: a finished Run has appended 6 Entries, of origin user, agent, agent,
\* agent, system, agent in this order, and while no Run is in progress the
\* timeline holds the initial Entry and 6 Entries per accepted submit.
C17_SixEntriesPerRun ==
    /\ \A r \in DOMAIN runs : Finished(r) =>
          [i \in DOMAIN Adds(runs[r].log) |-> messages[Adds(runs[r].log)[i].pos].role]
             = <<"user", "agent", "agent", "agent", "system", "agent">>
    /\ ~RunInProgress => Len(messages) = 1 + 6 * Len(runs)

\* two Runs were accepted and none is in progress
C17_Witness == ~RunInProgress /\ Len(runs) >= 2

====
